---- MODULE Spec2Model ----
(***************************************************************************)
(* The Windows DHCPv4 client exchange (dhcpv4/client4, Client.Exchange    *)
(* and Client.sendReceive) and the netboot interface waiter (IfUp), as a   *)
(* state machine.  Every call has its own Client value, socket and local   *)
(* variables; all per-call state is a function over the set of calls.      *)
(* Time is counted in ticks of 100ms.  The netboot extractors              *)
(* GetNetConfFromPacketv4 and GetNetConfFromPacketv6 are functions of the  *)
(* reply they are given.                                                   *)
(***************************************************************************)
EXTENDS Integers, Sequences, FiniteSets, TLC

\* ------------------------------------------------------------------ bounds
MaxTimeout == 1
MaxXid == 2
MaxAddr == 2
\* time.Sleep(100 * time.Millisecond): one tick
PollInterval == 1
MaxWait == 2
MaxReads == 1
MaxLease == 1
MaxOnes == 2
MaxIAAddrs == 2
MaxLabels == 2

Timeouts == 0..MaxTimeout
Xids == 1..MaxXid
Addrs == 1..MaxAddr

VARIABLES
    now,            \* wall clock (time.Now), in ticks
    kind,           \* kind[c]: which function call c runs, "Exchange" or "IfUp"
    client,         \* client[c]: the Client struct of the call
    args,           \* args[c]: the call's arguments (modifiers / timeout)
    pc,             \* pc[c]: position of the call in the code
    site,           \* site[c]: the call of sendReceive in progress ("offer", "ack")
    conversation,   \* conversation[c]: local of Exchange
    conn,           \* conn[c]: "none", "open" or "closed" (the UDP socket)
    packet,         \* packet[c]: parameter of sendReceive
    messageType,    \* messageType[c]: parameter of sendReceive
    wdl,            \* wdl[c]: write deadline of the socket (-1: not set)
    rdl,            \* rdl[c]: read deadline of the socket (-1: not set)
    buf,            \* buf[c]: datagram returned by the last ReadFromUDP
    sent,           \* sent[c]: datagrams the socket has put on the wire
    rx,             \* rx[c]: classes of datagrams delivered in the current wait
    ret,            \* ret[c]: what the call returned
    start,          \* start[c]: local of IfUp
    wake,           \* wake[c]: end of the current time.Sleep of IfUp
    link,           \* link[c]: the named interface: "absent", "down" or "up"
    network,        \* network[c]: datagrams the call's transport may deliver
    io,             \* io[c]: what the environment answered the call, in order
    recording,      \* whether io is kept (then MaxReads datagrams per wait)
    reply,          \* the reply handed to GetNetConfFromPacketv4/v6
    extracted       \* what the extractor returned

vars == <<now, kind, client, args, pc, site, conversation, conn, packet, messageType,
          wdl, rdl, buf, sent, rx, ret, start, wake, link, network, io,
          recording, reply, extracted>>

Calls == DOMAIN pc

\* ---------------------------------------------------------------- messages
OpcodeBootRequest == "BootRequest"
OpcodeBootReply == "BootReply"
MessageTypeNone == "None"
MessageTypeDiscover == "Discover"
MessageTypeOffer == "Offer"
MessageTypeRequest == "Request"
MessageTypeAck == "Ack"
MessageTypeNak == "Nak"

NoMsg == [xid |-> 0, op |-> "none", mtype |-> MessageTypeNone,
          yiaddr |-> 0, reqip |-> 0]

\* packet.ToBytes(): the datagram carrying message m
ToBytes(m) == [ok |-> TRUE, xid |-> m.xid, op |-> m.op, mtype |-> m.mtype,
               yiaddr |-> m.yiaddr, reqip |-> m.reqip]

\* dhcpv4.FromBytes(buf[:n]): a message, or a parse error
FromBytes(b) ==
    IF b.ok
    THEN [err |-> FALSE,
          msg |-> [xid |-> b.xid, op |-> b.op, mtype |-> b.mtype,
                   yiaddr |-> b.yiaddr, reqip |-> b.reqip]]
    ELSE [err |-> TRUE, msg |-> NoMsg]

NoBuf == [ok |-> FALSE, xid |-> 0, op |-> "none", mtype |-> MessageTypeNone,
          yiaddr |-> 0, reqip |-> 0]

\* Datagrams a transport may deliver: every well-formed BOOTP message of the
\* reply kinds, and malformed datagrams (which still carry bytes).
WellFormed ==
    [ok : {TRUE}, xid : Xids, op : {OpcodeBootRequest, OpcodeBootReply},
     mtype : {MessageTypeNone, MessageTypeOffer, MessageTypeAck, MessageTypeNak},
     yiaddr : Addrs, reqip : {0}]
Malformed ==
    [ok : {FALSE}, xid : Xids, op : {OpcodeBootReply},
     mtype : {MessageTypeOffer, MessageTypeAck},
     yiaddr : {1}, reqip : {0}]
AllDatagrams == WellFormed \cup Malformed

\* ------------------------------------------------------- request modifiers
\* A modifier is a transform of the message; the ones modelled set the
\* transaction identifier.
WithTransactionID(x) == [name |-> "WithTransactionID", xid |-> x]
ApplyModifier(m, mod) == [m EXCEPT !.xid = mod.xid]
RECURSIVE ApplyModifiers(_, _)
ApplyModifiers(m, mods) ==
    IF mods = <<>> THEN m
    ELSE ApplyModifiers(ApplyModifier(m, Head(mods)), Tail(mods))

ModifierLists == {<<>>, <<WithTransactionID(MaxXid)>>}

\* dhcpv4.NewDiscoveryForInterface(ifname, modifiers...) with the random
\* transaction identifier x
NewDiscovery(x, mods) ==
    ApplyModifiers([xid |-> x, op |-> OpcodeBootRequest,
                    mtype |-> MessageTypeDiscover,
                    yiaddr |-> 0, reqip |-> 0], mods)

\* dhcpv4.NewRequestFromOffer(offer, modifiers...)
NewRequestFromOffer(offer, mods) ==
    ApplyModifiers([xid |-> offer.xid, op |-> OpcodeBootRequest,
                    mtype |-> MessageTypeRequest,
                    yiaddr |-> 0,
                    reqip |-> offer.yiaddr], mods)

\* ---------------------------------------------------------------- addresses
\* A net.Addr field of the Client: nil, a *net.UDPAddr with an IPv4 address,
\* a *net.UDPAddr whose IP is not IPv4, or another implementation of net.Addr.
AddrKinds == {"nil", "udp4", "udp6", "other"}

toUDPAddr(addr) ==
    IF addr = "nil" THEN [err |-> FALSE, uaddr |-> "default"]
    ELSE IF addr = "other" THEN [err |-> TRUE, uaddr |-> "none"]
    ELSE IF addr = "udp6" THEN [err |-> TRUE, uaddr |-> "none"]
    ELSE [err |-> FALSE, uaddr |-> addr]

getRemoteUDPAddr(cl) == toUDPAddr(cl.RemoteAddr)
getLocalUDPAddr(cl) == toUDPAddr(cl.LocalAddr)

Clients == [ReadTimeout : Timeouts, WriteTimeout : Timeouts,
            RemoteAddr : AddrKinds, LocalAddr : AddrKinds]

\* NewClient(): the defaults, both addresses nil
NewClient == [ReadTimeout |-> MaxTimeout, WriteTimeout |-> MaxTimeout,
              RemoteAddr |-> "nil", LocalAddr |-> "nil"]

\* ------------------------------------------------------------------ returns
Pending == [conv |-> <<>>, nilconv |-> TRUE, iface |-> "nil", err |-> "pending"]

\* return conversation, err   (and return nil, err with nilconv)
ExchangeResult(conv, nilconv, err) ==
    [conv |-> conv, nilconv |-> nilconv, iface |-> "nil", err |-> err]

\* return iface, err of IfUp
IfUpResult(iface, err) ==
    [conv |-> <<>>, nilconv |-> TRUE, iface |-> iface, err |-> err]

\* ------------------------------------------------------------ Client.Exchange
consts == <<kind, client, args, network, recording, reply, extracted>>

\* One answer of the environment to a call.
Ev(name) == [ev |-> name, xid |-> 0, b |-> NoBuf, elapsed |-> 0, link |-> "none"]

Log(c, e) ==
    io' = IF recording THEN [io EXCEPT ![c] = Append(@, e)] ELSE io

\* Datagrams delivered to call c since its last send.
RECURSIVE ReadsInWait(_)
ReadsInWait(log) ==
    IF log = <<>> \/ log[Len(log)].ev # "datagram" THEN 0
    ELSE 1 + ReadsInWait(SubSeq(log, 1, Len(log) - 1))
ifupVars == <<start, wake, link>>
sockVars == <<wdl, rdl, buf, sent, rx>>

\* Mutant: no `defer conn.Close()`.
ReturnLeavesOpen(c, conv, nilconv, err) ==
    /\ ret' = [ret EXCEPT ![c] = ExchangeResult(conv, nilconv, err)]
    /\ pc' = [pc EXCEPT ![c] = "done"]
    /\ UNCHANGED conn

\* A return of Exchange after conn was (or was not yet) opened: the deferred
\* conn.Close() runs when a socket is open.
Return(c, conv, nilconv, err) ==
    /\ ret' = [ret EXCEPT ![c] = ExchangeResult(conv, nilconv, err)]
    /\ pc' = [pc EXCEPT ![c] = "done"]
    /\ conn' = [conn EXCEPT ![c] = IF @ = "open" THEN "closed" ELSE @]

\* `return nil, err` of the address validation
ReturnInvalidAddr(c, err) == Return(c, <<>>, TRUE, err)

\* Mutant: a failure returns nil instead of the conversation built so far.
ReturnErrorDropsConversation(c, err) == Return(c, <<>>, TRUE, err)

\* `return conversation, err` of every later failure
ReturnError(c, err) == Return(c, conversation[c], FALSE, err)

\* Exchange, lines 107-115: the conversation is created, the addresses are
\* validated, remote first.
ExchangeStart(c) ==
    /\ kind[c] = "Exchange"
    /\ pc[c] = "start"
    /\ conversation' = [conversation EXCEPT ![c] = <<>>]
    /\ IF getRemoteUDPAddr(client[c]).err
       THEN ReturnInvalidAddr(c, "InvalidRemoteAddr")
       ELSE IF getLocalUDPAddr(client[c]).err
       THEN ReturnInvalidAddr(c, "InvalidLocalAddr")
       ELSE /\ pc' = [pc EXCEPT ![c] = "listen"]
            /\ UNCHANGED <<ret, conn>>
    /\ UNCHANGED <<now, consts, site, packet, messageType, sockVars, ifupVars, io>>

\* Exchange, lines 119-123: net.ListenUDP succeeds or fails.
ListenUDP(c) ==
    /\ pc[c] = "listen"
    /\ \/ /\ conn' = [conn EXCEPT ![c] = "open"]
          /\ pc' = [pc EXCEPT ![c] = "discover"]
          /\ Log(c, Ev("listen"))
          /\ UNCHANGED ret
       \/ /\ ReturnError(c, "ListenError")
          /\ Log(c, Ev("listen_err"))
    /\ UNCHANGED <<now, consts, site, conversation, packet, messageType,
                   sockVars, ifupVars>>

\* Mutant: the conversation is one slice shared by all calls.
AppendConversationShared(c, m) ==
    conversation' = [d \in DOMAIN conversation |-> Append(conversation[d], m)]

\* conversation = append(conversation, m)
AppendConversation(c, m) ==
    conversation' = [conversation EXCEPT ![c] = Append(@, m)]

\* sendReceive is entered with (packet, messageType) from call site s.
CallSendReceive(c, s, p, mt) ==
    /\ site' = [site EXCEPT ![c] = s]
    /\ packet' = [packet EXCEPT ![c] = p]
    /\ messageType' = [messageType EXCEPT ![c] = mt]
    /\ pc' = [pc EXCEPT ![c] = "armw"]

\* Exchange, lines 126-133: the Discover is built (or building it fails),
\* appended, and handed to sendReceive with MessageTypeOffer.
Discover(c) ==
    /\ pc[c] = "discover"
    /\ \/ \E x \in Xids :
            LET discover == NewDiscovery(x, args[c].modifiers) IN
            /\ AppendConversation(c, discover)
            /\ CallSendReceive(c, "offer", discover, MessageTypeOffer)
            /\ Log(c, [Ev("discover") EXCEPT !.xid = x])
            /\ UNCHANGED <<ret, conn>>
       \/ /\ ReturnError(c, "BuildError")
          /\ Log(c, Ev("discover_err"))
          /\ UNCHANGED <<conversation, site, packet, messageType>>
    /\ UNCHANGED <<now, consts, sockVars, ifupVars>>

\* Exchange, lines 140-147: the Request is built from the Offer (or building
\* it fails), appended, and handed to sendReceive with MessageTypeAck.
Request(c) ==
    /\ pc[c] = "request"
    /\ \/ LET offer == conversation[c][Len(conversation[c])]
              request == NewRequestFromOffer(offer, args[c].modifiers) IN
          /\ AppendConversation(c, request)
          /\ CallSendReceive(c, "ack", request, MessageTypeAck)
          /\ Log(c, Ev("request"))
          /\ UNCHANGED <<ret, conn>>
       \/ /\ ReturnError(c, "BuildError")
          /\ Log(c, Ev("request_err"))
          /\ UNCHANGED <<conversation, site, packet, messageType>>
    /\ UNCHANGED <<now, consts, sockVars, ifupVars>>

\* ---------------------------------------------------------- Client.sendReceive
\* lines 160 and 170: `return nil, err`, the error of the socket unwrapped;
\* Exchange returns the conversation with it
OnDeadlineError(c, err) == ReturnError(c, err)

\* lines 159-161: conn.SetWriteDeadline(time.Now().Add(c.WriteTimeout)) sets
\* the deadline, or fails.
SetWriteDeadline(c) ==
    /\ pc[c] = "armw"
    /\ \/ /\ wdl' = [wdl EXCEPT ![c] = now + client[c].WriteTimeout]
          /\ pc' = [pc EXCEPT ![c] = "write"]
          /\ Log(c, Ev("wdl"))
          /\ UNCHANGED <<ret, conn>>
       \/ /\ OnDeadlineError(c, "WriteDeadlineError")
          /\ Log(c, Ev("wdl_err"))
          /\ UNCHANGED wdl
    /\ UNCHANGED <<now, consts, site, conversation, packet, messageType,
                   rdl, buf, sent, rx, ifupVars>>

\* lines 164-166: conn.WriteTo; the write fails when its deadline has passed,
\* and may fail for any other reason of the transport.
\* Mutant: a failed send is tried again.
OnSendErrorRetries(c) ==
    /\ pc' = [pc EXCEPT ![c] = "armw"]
    /\ UNCHANGED <<ret, conn>>

\* lines 164-166: a failed send ends sendReceive, and with it Exchange
OnSendError(c) == ReturnError(c, "SendError")

WriteTo(c) ==
    /\ pc[c] = "write"
    /\ \/ /\ now < wdl[c]
          /\ sent' = [sent EXCEPT ![c] = Append(@, ToBytes(packet[c]))]
          /\ pc' = [pc EXCEPT ![c] = "armr"]
          /\ Log(c, Ev("write"))
          /\ UNCHANGED <<ret, conn>>
       \/ /\ OnSendError(c)
          /\ Log(c, Ev("write_err"))
          /\ UNCHANGED sent
    /\ UNCHANGED <<now, consts, site, conversation, packet, messageType,
                   wdl, rdl, buf, rx, ifupVars>>

\* lines 169-171: conn.SetReadDeadline(time.Now().Add(c.ReadTimeout)) sets
\* the deadline, or fails.
SetReadDeadline(c) ==
    /\ pc[c] = "armr"
    /\ \/ /\ rdl' = [rdl EXCEPT ![c] = now + client[c].ReadTimeout]
          /\ rx' = [rx EXCEPT ![c] = "nothing"]
          /\ pc' = [pc EXCEPT ![c] = "recv"]
          /\ Log(c, Ev("rdl"))
          /\ UNCHANGED <<ret, conn>>
       \/ /\ OnDeadlineError(c, "ReadDeadlineError")
          /\ Log(c, Ev("rdl_err"))
          /\ UNCHANGED <<rdl, rx>>
    /\ UNCHANGED <<now, consts, site, conversation, packet, messageType,
                   wdl, buf, sent, ifupVars>>

\* What the transport has delivered in this wait once b arrived.
Delivered(seen, b) ==
    IF b.ok THEN "parsable"
    ELSE IF seen = "nothing" THEN "unparsable" ELSE seen

\* Mutant: a failed read makes the client transmit the packet again.
OnRecvErrorResends(c, err) ==
    /\ pc' = [pc EXCEPT ![c] = "armw"]
    /\ UNCHANGED <<ret, conn>>

\* lines 177-179: a failed read ends sendReceive, and with it Exchange
OnRecvError(c, err) == ReturnError(c, err)

\* lines 175-179: conn.ReadFromUDP returns a datagram before the read deadline,
\* fails with a timeout at the deadline, or fails for another reason.
ReadFromUDP(c) ==
    /\ pc[c] = "recv"
    /\ \/ /\ now < rdl[c]
          /\ recording => ReadsInWait(io[c]) < MaxReads
          /\ \E b \in network[c] :
                /\ buf' = [buf EXCEPT ![c] = b]
                /\ rx' = [rx EXCEPT ![c] = Delivered(@, b)]
                /\ Log(c, [Ev("datagram") EXCEPT !.b = b])
          /\ pc' = [pc EXCEPT ![c] = "parse"]
          /\ UNCHANGED <<ret, conn>>
       \/ /\ now >= rdl[c]
          /\ OnRecvError(c, "Timeout")
          /\ Log(c, Ev("timeout"))
          /\ UNCHANGED <<buf, rx>>
       \/ /\ now < rdl[c]
          /\ OnRecvError(c, "RecvError")
          /\ Log(c, Ev("recv_err"))
          /\ UNCHANGED <<buf, rx>>
    /\ UNCHANGED <<now, consts, site, conversation, packet, messageType,
                   wdl, rdl, sent, ifupVars>>

\* Mutant: the transaction identifier is not compared.
acceptAnyXid(response, sentPacket, expected) ==
    /\ response.op = OpcodeBootReply
    /\ expected = MessageTypeNone \/ response.mtype = expected

\* Mutant: the message type is not compared.
acceptAnyType(response, sentPacket, expected) ==
    response.xid = sentPacket.xid /\ response.op = OpcodeBootReply

\* Mutant: the opcode is not compared.
acceptAnyOpcode(response, sentPacket, expected) ==
    /\ response.xid = sentPacket.xid
    /\ expected = MessageTypeNone \/ response.mtype = expected

\* lines 187-202: the response filter
accept(response, sentPacket, expected) ==
    IF response.xid # sentPacket.xid THEN FALSE
    ELSE IF response.op # OpcodeBootReply THEN FALSE
    ELSE IF expected # MessageTypeNone /\ response.mtype # expected THEN FALSE
    ELSE TRUE

\* Mutant: every skipped datagram arms the read deadline again.
ContinueRearms(c) ==
    /\ pc' = [pc EXCEPT ![c] = "recv"]
    /\ buf' = [buf EXCEPT ![c] = NoBuf]
    /\ rdl' = [rdl EXCEPT ![c] = now + client[c].ReadTimeout]
    /\ UNCHANGED <<conversation, site, ret, conn>>

\* `continue`: the datagram is dropped and the loop reads again
Continue(c) ==
    /\ pc' = [pc EXCEPT ![c] = "recv"]
    /\ buf' = [buf EXCEPT ![c] = NoBuf]
    /\ UNCHANGED <<conversation, site, ret, conn, rdl>>

\* Mutant: a parse error is returned to the caller.
OnParseErrorReturns(c) ==
    /\ ReturnError(c, "ParseError")
    /\ buf' = [buf EXCEPT ![c] = NoBuf]
    /\ UNCHANGED <<conversation, site, rdl>>

\* Mutant: a message the filter rejects ends the wait as if it had timed out.
OnMismatchGivesUp(c) ==
    /\ ReturnError(c, "Timeout")
    /\ buf' = [buf EXCEPT ![c] = NoBuf]
    /\ UNCHANGED <<conversation, site, rdl>>

\* lines 183-184: a datagram that does not parse is logged and skipped
OnParseError(c) == Continue(c)

\* lines 188-200: a message the filter rejects is skipped
OnMismatch(c) == Continue(c)

\* line 202 and lines 137 / 151-153: the response is returned to Exchange,
\* which appends it and goes on to the Request, or returns the conversation.
OnAccept(c, response) ==
    /\ AppendConversation(c, response)
    /\ buf' = [buf EXCEPT ![c] = NoBuf]
    /\ site' = [site EXCEPT ![c] = "none"]
    /\ UNCHANGED rdl
    /\ IF site[c] = "offer"
       THEN /\ pc' = [pc EXCEPT ![c] = "request"]
            /\ UNCHANGED <<ret, conn>>
       ELSE Return(c, Append(conversation[c], response), FALSE, "nil")

\* lines 181-202: parse and filter the datagram just read
Filter(c) ==
    /\ pc[c] = "parse"
    /\ LET r == FromBytes(buf[c]) IN
       IF r.err THEN OnParseError(c)
       ELSE IF ~accept(r.msg, packet[c], messageType[c]) THEN OnMismatch(c)
       ELSE OnAccept(c, r.msg)
    /\ UNCHANGED <<now, consts, packet, messageType, wdl, sent, rx, ifupVars, io>>

\* ------------------------------------------------------------------- IfUp
exchVars == <<site, conversation, conn, packet, messageType, sockVars>>

\* line 120: start := time.Now()
IfUpStart(c) ==
    /\ kind[c] = "IfUp"
    /\ pc[c] = "start"
    /\ start' = [start EXCEPT ![c] = now]
    /\ pc' = [pc EXCEPT ![c] = "poll"]
    /\ UNCHANGED <<now, consts, exchVars, ret, wake, link, io>>

IfUpReturn(c, iface, err) ==
    /\ ret' = [ret EXCEPT ![c] = IfUpResult(iface, err)]
    /\ pc' = [pc EXCEPT ![c] = "done"]
    /\ UNCHANGED wake

\* Mutant: the loop has no timeout, `for { ... }`.
IfUpPollForever(c) ==
    /\ pc[c] = "poll"
    /\ Log(c, [Ev("poll") EXCEPT !.elapsed = now - start[c], !.link = link[c]])
    /\ IF link[c] = "absent"
       THEN IfUpReturn(c, "nil", "LookupError")
       ELSE IF link[c] = "up"
       THEN IfUpReturn(c, "iface", "nil")
       ELSE /\ wake' = [wake EXCEPT ![c] = now + PollInterval]
            /\ pc' = [pc EXCEPT ![c] = "sleep"]
            /\ UNCHANGED ret
    /\ UNCHANGED <<now, consts, exchVars, start, link>>

\* lines 121-132: one evaluation of the loop condition and, if it holds, one
\* poll of the interface up to the call of time.Sleep.
IfUpPoll(c) ==
    /\ pc[c] = "poll"
    /\ Log(c, [Ev("poll") EXCEPT !.elapsed = now - start[c], !.link = link[c]])
    /\ IF ~(now - start[c] < args[c].timeout)
       THEN IfUpReturn(c, "nil", "Timeout")
       ELSE IF link[c] = "absent"
       THEN IfUpReturn(c, "nil", "LookupError")
       ELSE IF link[c] = "up"
       THEN IfUpReturn(c, "iface", "nil")
       ELSE /\ wake' = [wake EXCEPT ![c] = now + PollInterval]
            /\ pc' = [pc EXCEPT ![c] = "sleep"]
            /\ UNCHANGED ret
    /\ UNCHANGED <<now, consts, exchVars, start, link>>

\* line 130: time.Sleep returns once 100ms have passed
IfUpWake(c) ==
    /\ pc[c] = "sleep"
    /\ now >= wake[c]
    /\ pc' = [pc EXCEPT ![c] = "poll"]
    /\ UNCHANGED <<now, consts, exchVars, ret, start, wake, link, io>>

\* The operating system changes the state of the named interface.
LinkChange(c) ==
    /\ kind[c] = "IfUp"
    /\ pc[c] \in {"poll", "sleep"}
    /\ \E l \in {"absent", "down", "up"} :
          /\ l # link[c]
          /\ link' = [link EXCEPT ![c] = l]
    /\ UNCHANGED <<now, consts, pc, exchVars, ret, start, wake, io>>

\* ------------------------------------------------------------------- clock
\* Time passes while some call waits for a deadline still in the future.
Waiting(c) ==
    \/ pc[c] \in {"recv", "parse"} /\ now < rdl[c]
    \/ pc[c] = "sleep" /\ now < wake[c]

Tick ==
    /\ \E c \in Calls : Waiting(c)
    /\ now' = now + 1
    /\ UNCHANGED <<consts, pc, exchVars, ret, ifupVars, io>>

\* ------------------------------------------------------------------ netboot
\* net.IP values: nil, 0.0.0.0 (net.IPv4zero) and the addresses of Addrs.
NilIP == -1
IPv4zero == 0
IPs == {NilIP, IPv4zero} \cup Addrs

\* ip.Equal(x) for a non-nil ip
IPEqual(ip, x) == ip = x

\* net.IPMask values: nil, the canonical masks of a prefix width, and a mask
\* whose ones are not contiguous.
NilMask == [nil |-> TRUE, ones |-> 0, bits |-> 0, canon |-> TRUE]
CIDRMask(ones, bits) == [nil |-> FALSE, ones |-> ones, bits |-> bits, canon |-> TRUE]
NonCanonicalMask == [nil |-> FALSE, ones |-> 1, bits |-> 32, canon |-> FALSE]
Masks == {NilMask, NonCanonicalMask} \cup {CIDRMask(n, 32) : n \in 0..MaxOnes}

\* ones, _ := netmask.Size(): 0 for a mask that is not canonical
Size(mask) == IF mask.canon THEN mask.ones ELSE 0

\* *rfc1035label.Labels: nil, or the labels of the option
NilLabels == [nil |-> TRUE, Labels |-> <<>>]
LabelLists == {NilLabels} \cup
              {[nil |-> FALSE, Labels |-> [i \in 1..n |-> i]] : n \in 0..MaxLabels}
IPLists == {<<>>, <<MaxAddr>>}
Lifetimes == 0..MaxLease

AddrConf(ip, mask, preferred, valid) ==
    [IP |-> ip, Mask |-> mask, PreferredLifetime |-> preferred,
     ValidLifetime |-> valid]

\* netconf := NetConf{}
EmptyNetConf == [Addresses |-> <<>>, DNSServers |-> <<>>, DNSSearchList |-> <<>>,
                 Routers |-> <<>>, NTPServers |-> <<>>]

\* return &netconf, nil
ReturnNetConf(netconf) == [nil |-> FALSE, netconf |-> netconf, err |-> "nil"]
\* return nil, errors.New(msg)
ReturnNil(msg) == [nil |-> TRUE, netconf |-> EmptyNetConf, err |-> msg]

\* A DHCPv4 reply, by what its accessors return.
V4Replies ==
    [YourIPAddr : IPs, SubnetMask : Masks,
     LeaseTime : [present : {FALSE}, val : {0}] \cup [present : {TRUE}, val : Lifetimes],
     DNS : IPLists, DomainSearch : LabelLists, Router : IPLists,
     NTPServers : IPLists]

\* d.SubnetMask(), d.IPAddressLeaseTime(def), d.DNS(), d.DomainSearch(),
\* d.Router(), d.NTPServers()
SubnetMask(d) == d.SubnetMask
IPAddressLeaseTime(d, def) == IF d.LeaseTime.present THEN d.LeaseTime.val ELSE def
DNS(d) == d.DNS
DomainSearch(d) == d.DomainSearch
Router(d) == d.Router
NTPServers(d) == d.NTPServers

\* part_000 lines 87-94: the single AddrConf of a v4 reply
\* Mutant: the lease time is also taken as the preferred lifetime.
V4AddrConfPreferred(ipAddr, netmask, leaseTime) ==
    AddrConf(ipAddr, netmask, leaseTime, leaseTime)

V4AddrConf(ipAddr, netmask, leaseTime) == AddrConf(ipAddr, netmask, 0, leaseTime)

\* part_000 lines 108-114: routers, NTP servers, and the return
FinishV4(d, netconf) ==
    ReturnNetConf([netconf EXCEPT !.Routers = Router(d),
                                  !.NTPServers = NTPServers(d)])

\* Mutant: the record filled so far is returned along with the error.
OnEmptySearchListPartial(d, netconf) ==
    [nil |-> FALSE, netconf |-> netconf, err |-> "dns search list is empty"]

\* Mutant: a search list without labels is taken as it is.
OnEmptySearchListAccepts(d, netconf) ==
    FinishV4(d, [netconf EXCEPT !.DNSSearchList = DomainSearch(d).Labels])

\* part_000 lines 102-104
OnEmptySearchList(d, netconf) == ReturnNil("dns search list is empty")

\* part_000 lines 67-115
GetNetConfFromPacketv4(d) ==
    LET ipAddr == d.YourIPAddr IN
    IF ipAddr = NilIP \/ IPEqual(ipAddr, IPv4zero)
    THEN ReturnNil("ip address is null (0.0.0.0)")
    ELSE
    LET netmask == SubnetMask(d) IN
    IF netmask.nil
    THEN ReturnNil("no netmask option in response packet")
    ELSE IF Size(netmask) = 0
    THEN ReturnNil("netmask extracted from OptSubnetMask options is null")
    ELSE
    LET leaseTime == IPAddressLeaseTime(d, 0)
        withAddr == [EmptyNetConf EXCEPT
                        !.Addresses = Append(@, V4AddrConf(ipAddr, netmask, leaseTime))]
        withDNS == [withAddr EXCEPT !.DNSServers = DNS(d)]
        dnsSearchList == DomainSearch(d)
    IN  IF ~dnsSearchList.nil
        THEN IF Len(dnsSearchList.Labels) = 0
             THEN OnEmptySearchList(d, withDNS)
             ELSE FinishV4(d, [withDNS EXCEPT !.DNSSearchList = dnsSearchList.Labels])
        ELSE FinishV4(d, withDNS)

\* A DHCPv6 reply, by what its accessors return: the first IA_NA option (or
\* nil) with its bound addresses, and the DNS, domain-search and NTP options.
IAAddrs == [IPv6Addr : Addrs, PreferredLifetime : Lifetimes, ValidLifetime : Lifetimes]
IAAddrLists == UNION {[1..n -> IAAddrs] : n \in 0..MaxIAAddrs}
NilIANA == [nil |-> TRUE, Addresses |-> <<>>]
V6Replies ==
    [OneIANA : {NilIANA} \cup [nil : {FALSE}, Addresses : IAAddrLists],
     DNS : IPLists, DomainSearchList : LabelLists, NTPServers : IPLists]

\* d.Options.OneIANA(), iana.Options.Addresses(), d.Options.DomainSearchList()
OneIANA(d) == d.OneIANA
Addresses(iana) == iana.Addresses
DomainSearchList(d) == d.DomainSearchList

\* Mutant: every entry carries the lifetimes of the first bound address.
AppendAddressesSharedLifetimes(netconf, addrs) ==
    [netconf EXCEPT !.Addresses =
        [i \in 1..Len(addrs) |->
            AddrConf(addrs[i].IPv6Addr, CIDRMask(128, 128),
                     addrs[1].PreferredLifetime, addrs[1].ValidLifetime)]]

\* part_000 lines 40-49: one AddrConf appended per bound address, in order
RECURSIVE AppendAddresses(_, _)
AppendAddresses(netconf, addrs) ==
    IF addrs = <<>> THEN netconf
    ELSE LET iaaddr == Head(addrs) IN
         AppendAddresses(
             [netconf EXCEPT !.Addresses =
                 Append(@, AddrConf(iaaddr.IPv6Addr, CIDRMask(128, 128),
                                    iaaddr.PreferredLifetime,
                                    iaaddr.ValidLifetime))],
             Tail(addrs))

\* part_000 lines 33-63
GetNetConfFromPacketv6(d) ==
    LET iana == OneIANA(d) IN
    IF iana.nil
    THEN ReturnNil("no option IA NA found")
    ELSE
    LET withAddrs == AppendAddresses(EmptyNetConf, Addresses(iana))
        withDNS == [withAddrs EXCEPT !.DNSServers = DNS(d)]
        domains == DomainSearchList(d)
        withSearch == IF ~domains.nil
                      THEN [withDNS EXCEPT !.DNSSearchList = domains.Labels]
                      ELSE withDNS
    IN  ReturnNetConf([withSearch EXCEPT !.NTPServers = NTPServers(d)])

\* No extractor is called / has returned.
NoReply == [version |-> 0, d |-> <<>>]
NotExtracted == [called |-> FALSE, res |-> ReturnNil("none")]

\* A caller hands the reply to the extractor of its protocol version.
ExtractV4 ==
    /\ reply.version = 4
    /\ ~extracted.called
    /\ extracted' = [called |-> TRUE, res |-> GetNetConfFromPacketv4(reply.d)]
    /\ UNCHANGED <<now, kind, client, args, network, recording, reply, pc,
                   exchVars, ret, ifupVars, io>>

ExtractV6 ==
    /\ reply.version = 6
    /\ ~extracted.called
    /\ extracted' = [called |-> TRUE, res |-> GetNetConfFromPacketv6(reply.d)]
    /\ UNCHANGED <<now, kind, client, args, network, recording, reply, pc,
                   exchVars, ret, ifupVars, io>>

\* ------------------------------------------------------------ specification
InitCall(k, cl, a, l, net, rec) ==
    /\ recording = rec
    /\ io = [c \in DOMAIN k |-> <<>>]
    /\ kind = k
    /\ client = cl
    /\ args = a
    /\ link = l
    /\ network = net
    /\ now = 0
    /\ pc = [c \in DOMAIN k |-> "start"]
    /\ site = [c \in DOMAIN k |-> "none"]
    /\ conversation = [c \in DOMAIN k |-> <<>>]
    /\ conn = [c \in DOMAIN k |-> "none"]
    /\ packet = [c \in DOMAIN k |-> NoMsg]
    /\ messageType = [c \in DOMAIN k |-> MessageTypeNone]
    /\ wdl = [c \in DOMAIN k |-> -1]
    /\ rdl = [c \in DOMAIN k |-> -1]
    /\ buf = [c \in DOMAIN k |-> NoBuf]
    /\ sent = [c \in DOMAIN k |-> <<>>]
    /\ rx = [c \in DOMAIN k |-> "nothing"]
    /\ ret = [c \in DOMAIN k |-> Pending]
    /\ start = [c \in DOMAIN k |-> 0]
    /\ wake = [c \in DOMAIN k |-> 0]
    /\ reply = NoReply
    /\ extracted = NotExtracted

ExchangeArgs == [modifiers : ModifierLists, timeout : {0}]
IfUpArgs == [modifiers : {<<>>}, timeout : 0..MaxWait]

\* One call: Exchange on any Client, or IfUp with any timeout.
Init ==
    \/ \E cl \in Clients, a \in ExchangeArgs :
          InitCall([c \in {1} |-> "Exchange"], [c \in {1} |-> cl],
                   [c \in {1} |-> a], [c \in {1} |-> "absent"],
                   [c \in {1} |-> AllDatagrams], FALSE)
    \/ \E a \in IfUpArgs, l \in {"absent", "down", "up"} :
          InitCall([c \in {1} |-> "IfUp"], [c \in {1} |-> NewClient],
                   [c \in {1} |-> a], [c \in {1} |-> l],
                   [c \in {1} |-> {}], FALSE)

Next ==
    \/ \E c \in Calls : ExchangeStart(c)
    \/ \E c \in Calls : ListenUDP(c)
    \/ \E c \in Calls : Discover(c)
    \/ \E c \in Calls : SetWriteDeadline(c)
    \/ \E c \in Calls : WriteTo(c)
    \/ \E c \in Calls : SetReadDeadline(c)
    \/ \E c \in Calls : ReadFromUDP(c)
    \/ \E c \in Calls : Filter(c)
    \/ \E c \in Calls : Request(c)
    \/ \E c \in Calls : IfUpStart(c)
    \/ \E c \in Calls : IfUpPoll(c)
    \/ \E c \in Calls : IfUpWake(c)
    \/ \E c \in Calls : LinkChange(c)
    \/ Tick

Spec == Init /\ [][Next]_vars

\* The clock advances and a call that can take a step is scheduled.
Program ==
    \E c \in Calls :
        \/ ExchangeStart(c) \/ ListenUDP(c) \/ Discover(c)
        \/ SetWriteDeadline(c) \/ WriteTo(c) \/ SetReadDeadline(c)
        \/ ReadFromUDP(c) \/ Filter(c) \/ Request(c)
        \/ IfUpStart(c) \/ IfUpPoll(c) \/ IfUpWake(c)

FairSpec == Spec /\ WF_vars(Tick) /\ WF_vars(Program)

\* ------------------------------------------------- the calls run alone
\* Exchange, sendReceive and IfUp as functions of the answers the environment
\* gives one call, in the order the call asks for them.
Incomplete == [err |-> "incomplete", msg |-> NoMsg, rest |-> <<>>]

\* lines 174-203: the receive loop over the reads in log
RECURSIVE ReceiveLoop(_, _, _)
ReceiveLoop(sentPacket, expected, log) ==
    IF log = <<>> THEN Incomplete
    ELSE LET e == Head(log) IN
         IF e.ev = "timeout"
         THEN [err |-> "Timeout", msg |-> NoMsg, rest |-> Tail(log)]
         ELSE IF e.ev = "recv_err"
         THEN [err |-> "RecvError", msg |-> NoMsg, rest |-> Tail(log)]
         ELSE LET r == FromBytes(e.b) IN
              IF r.err THEN ReceiveLoop(sentPacket, expected, Tail(log))
              ELSE IF ~accept(r.msg, sentPacket, expected)
              THEN ReceiveLoop(sentPacket, expected, Tail(log))
              ELSE [err |-> "nil", msg |-> r.msg, rest |-> Tail(log)]

\* lines 157-204
sendReceive(sentPacket, expected, log) ==
    IF log = <<>> THEN Incomplete
    ELSE IF log[1].ev = "wdl_err"
    THEN [err |-> "WriteDeadlineError", msg |-> NoMsg, rest |-> Tail(log)]
    ELSE IF Len(log) < 2 THEN Incomplete
    ELSE IF log[2].ev = "write_err"
    THEN [err |-> "SendError", msg |-> NoMsg, rest |-> SubSeq(log, 3, Len(log))]
    ELSE IF Len(log) < 3 THEN Incomplete
    ELSE IF log[3].ev = "rdl_err"
    THEN [err |-> "ReadDeadlineError", msg |-> NoMsg,
          rest |-> SubSeq(log, 4, Len(log))]
    ELSE ReceiveLoop(sentPacket, expected, SubSeq(log, 4, Len(log)))

\* lines 106-154
Exchange(cl, mods, log) ==
    IF getRemoteUDPAddr(cl).err
    THEN ExchangeResult(<<>>, TRUE, "InvalidRemoteAddr")
    ELSE IF getLocalUDPAddr(cl).err
    THEN ExchangeResult(<<>>, TRUE, "InvalidLocalAddr")
    ELSE IF log[1].ev = "listen_err"
    THEN ExchangeResult(<<>>, FALSE, "ListenError")
    ELSE IF log[2].ev = "discover_err"
    THEN ExchangeResult(<<>>, FALSE, "BuildError")
    ELSE
    LET discover == NewDiscovery(log[2].xid, mods)
        o == sendReceive(discover, MessageTypeOffer, SubSeq(log, 3, Len(log)))
    IN  IF o.err # "nil" THEN ExchangeResult(<<discover>>, FALSE, o.err)
        ELSE IF Head(o.rest).ev = "request_err"
        THEN ExchangeResult(<<discover, o.msg>>, FALSE, "BuildError")
        ELSE
        LET request == NewRequestFromOffer(o.msg, mods)
            a == sendReceive(request, MessageTypeAck, Tail(o.rest))
        IN  IF a.err # "nil"
            THEN ExchangeResult(<<discover, o.msg, request>>, FALSE, a.err)
            ELSE ExchangeResult(<<discover, o.msg, request, a.msg>>, FALSE, "nil")

\* part_000 lines 119-133: IfUp over the polls in log
RECURSIVE IfUp(_, _)
IfUp(timeout, log) ==
    IF log = <<>> THEN IfUpResult("nil", "incomplete")
    ELSE LET e == Head(log) IN
         IF ~(e.elapsed < timeout) THEN IfUpResult("nil", "Timeout")
         ELSE IF e.link = "absent" THEN IfUpResult("nil", "LookupError")
         ELSE IF e.link = "up" THEN IfUpResult("iface", "nil")
         ELSE IfUp(timeout, Tail(log))

\* What call c returns when it runs alone and the environment answers it as
\* recorded in io[c].
RunAlone(c) ==
    IF kind[c] = "Exchange"
    THEN Exchange(client[c], args[c].modifiers, io[c])
    ELSE IfUp(args[c].timeout, io[c])

\* --------------------------------------------------------- two calls at once
\* The transport of call c delivers leases of its own: replies to either
\* transaction identifier that offer or acknowledge address c, and noise.
TransportOf(c) ==
    {b \in AllDatagrams :
        \/ /\ b.ok /\ b.op = OpcodeBootReply /\ b.yiaddr = c /\ b.xid = 1
           /\ b.mtype \in {MessageTypeOffer, MessageTypeAck}
        \/ ~b.ok /\ b.xid = 1 /\ b.mtype = MessageTypeOffer}

Pair == {1, 2}

\* The Client of a call of the pair: NewClient() with timeouts of one tick.
PairClient == [NewClient EXCEPT !.ReadTimeout = 1, !.WriteTimeout = 1]

\* Two calls, both Exchange, each on a Client of its own, or both IfUp, each
\* on an interface of its own; what the environment answers each is recorded.
InitPair ==
    \E k \in [Pair -> {"Exchange", "IfUp"}],
       t \in [Pair -> 0..MaxWait],
       l \in [Pair -> {"down", "up"}] :
        /\ k[1] = k[2]
        /\ \A c \in Pair : k[c] = "Exchange" => t[c] = 0 /\ l[c] = "down"
        /\ InitCall(k, [c \in Pair |-> PairClient],
                    [c \in Pair |-> [modifiers |-> <<>>, timeout |-> t[c]]],
                    l,
                    [c \in Pair |-> IF k[c] = "Exchange" THEN TransportOf(c) ELSE {}],
                    TRUE)

SpecPair == InitPair /\ [][Next]_vars

\* --------------------------------------------------- extraction of a reply
\* No call of Exchange or IfUp is in progress; one reply of either protocol
\* version is extracted.
InitNetConf ==
    /\ reply \in [version : {4}, d : V4Replies] \cup [version : {6}, d : V6Replies]
    /\ extracted = NotExtracted
    /\ now = 0
    /\ recording = FALSE
    /\ kind = <<>> /\ client = <<>> /\ args = <<>> /\ link = <<>>
    /\ network = <<>> /\ io = <<>> /\ pc = <<>> /\ site = <<>>
    /\ conversation = <<>> /\ conn = <<>> /\ packet = <<>>
    /\ messageType = <<>> /\ wdl = <<>> /\ rdl = <<>> /\ buf = <<>>
    /\ sent = <<>> /\ rx = <<>> /\ ret = <<>> /\ start = <<>> /\ wake = <<>>

NextNetConf == ExtractV4 \/ ExtractV6

SpecNetConf == InitNetConf /\ [][NextNetConf]_vars

\* ====================================================================
\* Properties
\* ====================================================================
ExchangeCalls == {c \in Calls : kind[c] = "Exchange"}
Returned(c) == pc[c] = "done"

StepOrder == <<MessageTypeDiscover, MessageTypeOffer, MessageTypeRequest,
               MessageTypeAck>>

\* conv is a prefix of the step order, one message per step
IsStepPrefix(conv) ==
    /\ Len(conv) <= Len(StepOrder)
    /\ \A i \in 1..Len(conv) : conv[i].mtype = StepOrder[i]

\* m answers p as a reply of type t
Matches(m, p, t) == m.xid = p.xid /\ m.op = OpcodeBootReply /\ m.mtype = t

\* C1: Exchange returns a nil error only if a matching Ack was accepted in
\* the Ack wait, and exactly then the returned conversation is the four
\* messages Discover, Offer, Request, Ack; every return with an error carries
\* fewer than four messages.
C1_NilErrorIffAck ==
    \A c \in ExchangeCalls : Returned(c) =>
        LET r == ret[c] IN
        /\ r.err = "nil" <=> Len(r.conv) = 4
        /\ r.err = "nil" =>
              /\ IsStepPrefix(r.conv)
              /\ ~r.nilconv
              /\ messageType[c] = MessageTypeAck
              /\ Matches(r.conv[4], r.conv[3], MessageTypeAck)
              /\ ToBytes(r.conv[4]) \in network[c]
              /\ rx[c] = "parsable"
        /\ r.err # "nil" => Len(r.conv) < 4

C1_Witness ==
    \E c \in ExchangeCalls :
        Returned(c) /\ ret[c].err = "nil" /\ Len(ret[c].conv) = 4

\* C2: at every point of Exchange and at every return the conversation is a
\* prefix of the step order Discover, Offer, Request, Ack with at most one
\* message per step, and a return hands back the conversation accumulated so
\* far (a nil slice where nothing was accumulated before the socket exists).
C2_ConversationIsPrefix ==
    \A c \in ExchangeCalls :
        /\ IsStepPrefix(conversation[c])
        /\ Returned(c) =>
              /\ ret[c].conv = conversation[c]
              /\ ret[c].nilconv => conversation[c] = <<>>

C2_Witness ==
    \E c \in ExchangeCalls :
        /\ Returned(c)
        /\ ret[c].err \notin {"nil", "pending"}
        /\ Len(ret[c].conv) = 3

\* The Request was sent and Exchange returned without an accepted Ack.
NoAckAfterRequest(c) ==
    Returned(c) /\ Len(sent[c]) = 2 /\ ret[c].err # "nil"

\* C3 as stated: when Discover and Request were sent and no matching Ack is
\* delivered, Exchange returns [Discover, Offer, Request] with a Timeout error
\* once the read deadline of the Ack wait has elapsed, and not before.
C3_Original ==
    \A c \in ExchangeCalls : NoAckAfterRequest(c) =>
        /\ Len(ret[c].conv) = 3 /\ IsStepPrefix(ret[c].conv)
        /\ ret[c].err = "Timeout"
        /\ now >= rdl[c]

\* C3 (amended): when Discover and Request were sent and no matching Ack is
\* delivered, Exchange returns [Discover, Offer, Request] with the error of
\* the failed receive: a Timeout error once the read deadline of the Ack wait
\* has elapsed and not before, or the receive error of a read that failed for
\* another reason before the deadline, or the error of SetReadDeadline when
\* the deadline of the Ack wait could not be set (then nothing was read).
C3_TimeoutOrRecvError ==
    \A c \in ExchangeCalls : NoAckAfterRequest(c) =>
        /\ Len(ret[c].conv) = 3 /\ IsStepPrefix(ret[c].conv)
        /\ ret[c].conv = conversation[c]
        /\ ret[c].err \in {"Timeout", "RecvError", "ReadDeadlineError"}
        /\ ret[c].err = "Timeout" => now >= rdl[c]
        /\ ret[c].err = "RecvError" => now < rdl[c]
        /\ ret[c].err = "ReadDeadlineError" => buf[c] = NoBuf

C3_Witness ==
    \E c \in ExchangeCalls :
        /\ NoAckAfterRequest(c)
        /\ ret[c].err = "Timeout"
        /\ rx[c] = "parsable"
        /\ client[c].ReadTimeout > 0

\* The step of call c that examines a well-formed reply with a foreign
\* transaction identifier.
ForeignReply(c) ==
    pc[c] = "parse" /\ buf[c].ok /\ buf[c].xid # packet[c].xid

\* Call c is inside the receive loop of sendReceive.
InLoop(c) == pc[c] \in {"recv", "parse"}

\* The discard of a foreign reply: not returned, the loop not ended, the
\* conversation, the result and the read deadline untouched, next a read.
C4_Discard ==
    \A c \in ExchangeCalls : ForeignReply(c) /\ pc'[c] # "parse" =>
        /\ pc'[c] = "recv"
        /\ conversation'[c] = conversation[c]
        /\ ret'[c] = ret[c]
        /\ rdl'[c] = rdl[c]
        /\ sent'[c] = sent[c]

\* The loop is left by accepting a reply that matches the packet sent.
LeftByMatch(c) ==
    /\ pc[c] = "parse"
    /\ conversation'[c] = Append(conversation[c], FromBytes(buf[c]).msg)
    /\ Matches(FromBytes(buf[c]).msg, packet[c], messageType[c])

\* The loop is left by the read deadline having elapsed.
LeftByDeadline(c) ==
    pc[c] = "recv" /\ now >= rdl[c] /\ ret'[c].err = "Timeout"

\* The loop is left by a read that failed before the deadline.
LeftByRecvError(c) ==
    pc[c] = "recv" /\ now < rdl[c] /\ ret'[c].err = "RecvError"

\* C4 as stated: a well-formed reply with a foreign transaction identifier
\* is discarded, and the loop goes on reading until a matching reply arrives
\* or the read deadline elapses.
C4_Original ==
    [][ /\ C4_Discard
        /\ \A c \in ExchangeCalls : InLoop(c) /\ ~InLoop(c)' =>
              LeftByMatch(c) \/ LeftByDeadline(c) ]_vars

\* C4 (amended): a well-formed reply with a foreign transaction identifier is
\* discarded: never returned as the step's result, not ending the loop, not
\* changing the conversation; the loop goes on reading until a matching reply
\* arrives, the read deadline elapses, or a read fails with another error.
C4_ForeignReplyDiscarded ==
    [][ /\ C4_Discard
        /\ \A c \in ExchangeCalls : InLoop(c) /\ ~InLoop(c)' =>
              LeftByMatch(c) \/ LeftByDeadline(c) \/ LeftByRecvError(c) ]_vars

\* An Ack that answers another transaction is being examined in the Ack wait,
\* after an earlier datagram of the same wait was skipped.
C4_Witness ==
    \E c \in ExchangeCalls :
        /\ ForeignReply(c) /\ site[c] = "ack"
        /\ buf[c].op = OpcodeBootReply /\ buf[c].mtype = MessageTypeAck
        /\ now > 0

\* C5: a datagram that fails to parse never ends the receive loop and never
\* becomes the terminal error: when all datagrams of a wait were unparsable
\* until the read deadline elapsed, Exchange ends with a Timeout error and the
\* conversation truncated at the last completed step.
C5_State ==
    \A c \in ExchangeCalls :
        /\ ret[c].err # "ParseError"
        /\ Returned(c) /\ rx[c] = "unparsable" /\ now >= rdl[c] =>
              /\ ret[c].err = "Timeout"
              /\ ret[c].conv = conversation[c]
              /\ Len(ret[c].conv) \in {1, 3}
              /\ IsStepPrefix(ret[c].conv)

C5_Step ==
    \A c \in ExchangeCalls :
        pc[c] = "parse" /\ FromBytes(buf[c]).err /\ pc'[c] # "parse" =>
            /\ pc'[c] = "recv"
            /\ ret'[c] = ret[c]
            /\ conversation'[c] = conversation[c]

C5_ParseErrorNotTerminal == []C5_State /\ [][C5_Step]_vars

C5_Witness ==
    \E c \in ExchangeCalls :
        /\ Returned(c) /\ rx[c] = "unparsable" /\ now >= rdl[c]
        /\ client[c].ReadTimeout > 0
        /\ Len(ret[c].conv) = 3

\* The filter as the claim states it.
FilterContract(m, p, t) ==
    /\ m.xid = p.xid
    /\ m.op = OpcodeBootReply
    /\ t = MessageTypeNone \/ m.mtype = t

FilterInputs == {FromBytes(b).msg : b \in WellFormed}
SentPackets == {NewDiscovery(x, <<>>) : x \in Xids}
ExpectedTypes == {MessageTypeNone, MessageTypeOffer, MessageTypeAck, MessageTypeNak}

\* C6: the filter accepts a parsed message iff its transaction identifier
\* equals that of the sent packet, its opcode is BootReply, and the expected
\* type is the wildcard or equals the message's type; Exchange expects Offer
\* in the Offer wait and Ack in the Ack wait, never the wildcard, so a reply of
\* another type with the matching identifier is discarded.
C6_State ==
    /\ \A m \in FilterInputs, p \in SentPackets, t \in ExpectedTypes :
          accept(m, p, t) <=> FilterContract(m, p, t)
    /\ \A c \in ExchangeCalls :
          /\ site[c] = "offer" => messageType[c] = MessageTypeOffer
          /\ site[c] = "ack" => messageType[c] = MessageTypeAck
          /\ pc[c] \in {"armw", "write", "armr", "recv", "parse"} =>
                site[c] \in {"offer", "ack"}

C6_Step ==
    \A c \in ExchangeCalls :
        pc[c] = "parse" /\ buf[c].ok /\ pc'[c] # "parse" =>
            LET m == FromBytes(buf[c]).msg IN
            IF FilterContract(m, packet[c], messageType[c])
            THEN conversation'[c] = Append(conversation[c], m)
            ELSE /\ conversation'[c] = conversation[c]
                 /\ pc'[c] = "recv"
                 /\ ret'[c] = ret[c]

C6_FilterContract == []C6_State /\ [][C6_Step]_vars

\* A Nak with the transaction identifier of the Request is being examined in
\* the Ack wait.
C6_Witness ==
    \E c \in ExchangeCalls :
        /\ pc[c] = "parse" /\ site[c] = "ack"
        /\ buf[c].ok /\ buf[c].xid = packet[c].xid
        /\ buf[c].op = OpcodeBootReply /\ buf[c].mtype = MessageTypeNak

\* The step of call c in which a send fails: WriteTo is left without a
\* datagram put on the wire.
SendFails(c) == pc[c] = "write" /\ pc'[c] # "write" /\ sent'[c] = sent[c]

\* C7: when a send fails the exchange ends at once with a wrapped transport
\* error: no receive for that step, no second send, and the conversation built
\* so far is returned ([Discover] for the Discover, [Discover, Offer, Request]
\* for the Request).
C7_State ==
    \A c \in ExchangeCalls : Returned(c) /\ ret[c].err = "SendError" =>
        /\ ret[c].conv = conversation[c]
        /\ ~ret[c].nilconv
        /\ IsStepPrefix(ret[c].conv)
        /\ site[c] = "offer" => Len(ret[c].conv) = 1 /\ sent[c] = <<>>
        /\ site[c] = "ack" => Len(ret[c].conv) = 3 /\ Len(sent[c]) = 1
        /\ site[c] \in {"offer", "ack"}
        /\ buf[c] = NoBuf

C7_Step ==
    \A c \in ExchangeCalls : SendFails(c) =>
        /\ pc'[c] = "done"
        /\ ret'[c].err = "SendError"
        /\ rdl'[c] = rdl[c] /\ rx'[c] = rx[c] /\ buf'[c] = buf[c]

C7_SendFailureEndsExchange == []C7_State /\ [][C7_Step]_vars

C7_Witness ==
    \E c \in ExchangeCalls :
        /\ Returned(c) /\ ret[c].err = "SendError"
        /\ Len(ret[c].conv) = 3
        /\ now < wdl[c]

\* C8: every call of Exchange terminates: in each step the write deadline is
\* armed before the send and the read deadline exactly once, after the send
\* and before the first receive, never again by a discarded datagram; a
\* datagram is only delivered before the read deadline, so each receive loop
\* ends no later than its deadline, whatever keeps arriving.
C8_Step ==
    \A c \in ExchangeCalls :
        /\ wdl'[c] # wdl[c] => pc[c] = "armw" /\ pc'[c] = "write"
        /\ pc[c] = "armw" /\ pc'[c] # "armw" =>
              \/ pc'[c] = "write" /\ wdl'[c] = now + client[c].WriteTimeout
              \/ /\ pc'[c] = "done" /\ ret'[c].err = "WriteDeadlineError"
                 /\ sent'[c] = sent[c]
        /\ pc'[c] = "armr" /\ pc[c] # "armr" => pc[c] = "write" /\ now < wdl[c]
        /\ rdl'[c] # rdl[c] => pc[c] = "armr" /\ pc'[c] = "recv"
        /\ pc[c] = "armr" /\ pc'[c] # "armr" =>
              \/ pc'[c] = "recv" /\ rdl'[c] = now + client[c].ReadTimeout
              \/ pc'[c] = "done" /\ ret'[c].err = "ReadDeadlineError"
        /\ pc'[c] = "recv" /\ pc[c] # "recv" => pc[c] \in {"armr", "parse"}
        /\ pc'[c] = "parse" /\ pc[c] # "parse" => pc[c] = "recv" /\ now < rdl[c]
        /\ pc[c] = "recv" /\ pc'[c] # "recv" /\ now >= rdl[c] => pc'[c] = "done"

C8_ExchangeTerminates ==
    /\ [][C8_Step]_vars
    /\ <>(\A c \in ExchangeCalls : Returned(c))

\* A wait that saw datagrams has ended by its deadline.
C8_Witness ==
    \E c \in ExchangeCalls :
        /\ Returned(c) /\ ret[c].err = "Timeout" /\ now >= rdl[c]
        /\ rx[c] # "nothing" /\ Len(sent[c]) = 2

\* Position of call c in the one pass through Exchange.
Progress(c) ==
    LET base == IF Len(conversation[c]) <= 1 THEN 2 ELSE 8 IN
    CASE pc[c] = "start" -> 0
      [] pc[c] = "listen" -> 1
      [] pc[c] = "discover" -> 2
      [] pc[c] = "armw" -> base + 1
      [] pc[c] = "write" -> base + 2
      [] pc[c] = "armr" -> base + 3
      [] pc[c] = "recv" -> base + 4
      [] pc[c] = "parse" -> base + 4
      [] pc[c] = "request" -> 8
      [] OTHER -> 14

\* C9: one call of Exchange is a single attempt: the Discover is sent at most
\* once and the Request at most once, the Request only after an Offer was
\* accepted and built from that Offer, nothing is sent after a step failed,
\* and the call never goes back to an earlier step.
C9_State ==
    \A c \in ExchangeCalls :
        /\ Len(sent[c]) <= 2
        /\ Len(sent[c]) >= 1 =>
              /\ Len(conversation[c]) >= 1
              /\ sent[c][1] = ToBytes(conversation[c][1])
              /\ sent[c][1].mtype = MessageTypeDiscover
        /\ Len(sent[c]) = 2 =>
              /\ Len(conversation[c]) >= 3
              /\ Matches(conversation[c][2], conversation[c][1], MessageTypeOffer)
              /\ sent[c][2] = ToBytes(conversation[c][3])
              /\ sent[c][2].mtype = MessageTypeRequest
              /\ sent[c][2].reqip = conversation[c][2].yiaddr
              /\ args[c].modifiers = <<>> =>
                    sent[c][2].xid = conversation[c][2].xid

C9_Step ==
    \A c \in ExchangeCalls :
        /\ Progress(c)' >= Progress(c)
        /\ Returned(c) => Returned(c)' /\ sent'[c] = sent[c] /\ ret'[c] = ret[c]
        /\ sent'[c] # sent[c] => \E d \in AllDatagrams \cup {ToBytes(packet[c])} :
                                    sent'[c] = Append(sent[c], d)

C9_SingleAttempt == []C9_State /\ [][C9_Step]_vars

C9_Witness ==
    \E c \in ExchangeCalls :
        /\ Returned(c) /\ Len(sent[c]) = 2
        /\ ret[c].err = "Timeout"
        /\ conversation[c][2].yiaddr = MaxAddr

\* Everything call c owns: its locals, its socket, its interface, its result.
Local(c) ==
    <<pc[c], site[c], conversation[c], conn[c], packet[c], messageType[c],
      wdl[c], rdl[c], buf[c], sent[c], rx[c], ret[c], start[c], wake[c],
      link[c], io[c], kind[c], client[c], args[c], network[c]>>

\* Call c has put on its wire its own requests only and holds replies of its
\* own transport only.
OwnTraffic(c) ==
    /\ \A i \in 1..Len(sent[c]) :
          i <= 2 /\ 2 * i - 1 <= Len(conversation[c])
          /\ sent[c][i] = ToBytes(conversation[c][2 * i - 1])
    /\ \A i \in 1..Len(conversation[c]) :
          i \in {2, 4} => ToBytes(conversation[c][i]) \in network[c]

\* C10: two Exchange calls or two IfUp calls whose steps interleave, each on
\* its own transport and Client, share no mutable state: a step writes the
\* variables of one call only, and each call returns the conversation and the
\* error it returns when run alone on the same answers of its environment.
C10_State ==
    \A c \in Calls :
        /\ OwnTraffic(c)
        /\ Returned(c) => ret[c] = RunAlone(c)

C10_Step ==
    \A c \in Calls, d \in Calls :
        c # d => Local(c)' = Local(c) \/ Local(d)' = Local(d)

C10_CallsAreIndependent == []C10_State /\ [][C10_Step]_vars

\* Both calls are Exchange, both got their four messages, and they ended at
\* different times.
C10_Witness ==
    /\ Calls = Pair
    /\ \A c \in Calls : kind[c] = "Exchange" /\ Returned(c) /\ ret[c].err = "nil"
    /\ rdl[1] # rdl[2]

\* Both calls are IfUp and have returned, one with the interface, the other
\* timed out after polling.
C10_WitnessIfUp ==
    /\ Calls = Pair
    /\ \A c \in Calls : kind[c] = "IfUp" /\ Returned(c)
    /\ ret[1].err = "nil" /\ ret[2].err = "Timeout" /\ Len(io[2]) > 1

\* ------------------------------------------------------------------ C11
\* The extractor has returned for a reply of protocol version v.
Extracted(v) == reply.version = v /\ extracted.called

\* The v4 address and mask checks pass for reply d.
V4AddressOK(d) ==
    /\ d.YourIPAddr # NilIP /\ d.YourIPAddr # IPv4zero
    /\ ~d.SubnetMask.nil /\ Size(d.SubnetMask) # 0

\* The v4 domain-search option is present without any label.
V4EmptySearch(d) == ~d.DomainSearch.nil /\ d.DomainSearch.Labels = <<>>

\* C11: GetNetConfFromPacketv4 and GetNetConfFromPacketv6 return either a
\* NetConf and a nil error, or a nil NetConf and an error, never both and
\* never neither; a v4 reply that fails the domain-search check after its
\* address was appended returns a nil NetConf all the same.
C11_NetConfXorError ==
    extracted.called =>
        /\ reply.version \in {4, 6}
        /\ extracted.res.nil <=> extracted.res.err # "nil"
        /\ extracted.res.nil => extracted.res.netconf = EmptyNetConf
        /\ (reply.version = 4 /\ V4AddressOK(reply.d) /\ V4EmptySearch(reply.d))
              => extracted.res.nil

C11_Witness ==
    /\ Extracted(4)
    /\ V4AddressOK(reply.d) /\ V4EmptySearch(reply.d)
    /\ reply.d.DNS # <<>>
    /\ extracted.res.nil /\ extracted.res.err = "dns search list is empty"

\* ------------------------------------------------------------------ C12
\* The spec's error taxonomy, as sets of the messages of the code's errors.
MissingField == {"ip address is null (0.0.0.0)"}
MissingOption == {"no netmask option in response packet", "no option IA NA found"}
InvalidValue == {"netmask extracted from OptSubnetMask options is null",
                 "dns search list is empty"}

\* C12: an otherwise valid v4 reply whose domain-search option is present
\* with zero labels fails with the InvalidValue error "dns search list is
\* empty"; with the option absent an otherwise valid v4 or v6 reply succeeds
\* with an empty search list; a v6 reply with the option present and zero
\* labels succeeds; an absent option is never the reason of a failure.
C12_DomainSearchAsymmetry ==
    extracted.called =>
        /\ (reply.version = 4 /\ V4AddressOK(reply.d)) =>
              /\ V4EmptySearch(reply.d) =>
                    /\ extracted.res.nil
                    /\ extracted.res.err = "dns search list is empty"
                    /\ extracted.res.err \in InvalidValue
              /\ reply.d.DomainSearch.nil =>
                    /\ ~extracted.res.nil /\ extracted.res.err = "nil"
                    /\ extracted.res.netconf.DNSSearchList = <<>>
        /\ (reply.version = 6 /\ ~reply.d.OneIANA.nil) =>
              /\ ~extracted.res.nil /\ extracted.res.err = "nil"
              /\ extracted.res.netconf.DNSSearchList = reply.d.DomainSearchList.Labels
              /\ (reply.d.DomainSearchList.nil \/ reply.d.DomainSearchList.Labels = <<>>)
                    => extracted.res.netconf.DNSSearchList = <<>>
        /\ (reply.version = 4 /\ reply.d.DomainSearch.nil)
              => extracted.res.err # "dns search list is empty"

C12_Witness ==
    /\ Extracted(6)
    /\ ~reply.d.OneIANA.nil
    /\ ~reply.d.DomainSearchList.nil /\ reply.d.DomainSearchList.Labels = <<>>
    /\ ~extracted.res.nil /\ extracted.res.err = "nil"

\* ------------------------------------------------------------------ C13
\* The v4 replies the claim calls accepted.
V4Accepted(d) ==
    /\ V4AddressOK(d)
    /\ d.DomainSearch.nil \/ d.DomainSearch.Labels # <<>>

\* C13: GetNetConfFromPacketv4 succeeds exactly on the replies with
\* YourIPAddr present and not 0.0.0.0, a subnet mask present with non-zero
\* prefix width, and domain search absent or non-empty; the NetConf then
\* holds exactly one AddrConf: YourIPAddr, the subnet-mask option,
\* PreferredLifetime 0, ValidLifetime the lease-time option's value or 0
\* when the option is absent.  A reply without address or without a mask of
\* non-zero width yields an error whatever its other options are.
C13_SingleV4Address ==
    Extracted(4) =>
        LET d == reply.d
            res == extracted.res IN
        /\ ~res.nil <=> V4Accepted(d)
        /\ V4Accepted(d) =>
              /\ res.err = "nil"
              /\ Len(res.netconf.Addresses) = 1
              /\ res.netconf.Addresses[1].IP = d.YourIPAddr
              /\ res.netconf.Addresses[1].Mask = d.SubnetMask
              /\ res.netconf.Addresses[1].PreferredLifetime = 0
              /\ res.netconf.Addresses[1].ValidLifetime =
                    (IF d.LeaseTime.present THEN d.LeaseTime.val ELSE 0)
        /\ d.YourIPAddr \in {NilIP, IPv4zero} =>
              res.nil /\ res.err \in MissingField
        /\ (d.YourIPAddr \notin {NilIP, IPv4zero} /\ d.SubnetMask.nil) =>
              res.nil /\ res.err = "no netmask option in response packet"
        /\ (d.YourIPAddr \notin {NilIP, IPv4zero} /\ ~d.SubnetMask.nil
            /\ Size(d.SubnetMask) = 0) =>
              res.nil /\ res.err = "netmask extracted from OptSubnetMask options is null"

C13_Witness ==
    /\ Extracted(4)
    /\ V4Accepted(reply.d)
    /\ reply.d.LeaseTime.present /\ reply.d.LeaseTime.val = MaxLease
    /\ reply.d.SubnetMask.ones = MaxOnes
    /\ ~extracted.res.nil
    /\ extracted.res.netconf.Addresses[1].ValidLifetime = MaxLease

\* ------------------------------------------------------------------ C14
\* C14: for a v6 reply whose IA_NA option binds n addresses (n >= 0),
\* GetNetConfFromPacketv6 returns a NetConf with exactly n AddrConf entries
\* in the option's order, the i-th being the i-th bound address with a /128
\* mask and that address's own preferred and valid lifetimes; a reply with
\* no IA_NA option yields the MissingOption error.
C14_OneAddrConfPerIAAddr ==
    Extracted(6) =>
        LET iana == reply.d.OneIANA
            res == extracted.res IN
        /\ ~iana.nil =>
              /\ ~res.nil /\ res.err = "nil"
              /\ Len(res.netconf.Addresses) = Len(iana.Addresses)
              /\ \A i \in 1..Len(iana.Addresses) :
                    /\ res.netconf.Addresses[i].IP = iana.Addresses[i].IPv6Addr
                    /\ res.netconf.Addresses[i].Mask = CIDRMask(128, 128)
                    /\ res.netconf.Addresses[i].PreferredLifetime =
                          iana.Addresses[i].PreferredLifetime
                    /\ res.netconf.Addresses[i].ValidLifetime =
                          iana.Addresses[i].ValidLifetime
        /\ iana.nil =>
              /\ res.nil /\ res.err = "no option IA NA found"
              /\ res.err \in MissingOption

C14_Witness ==
    /\ Extracted(6)
    /\ ~reply.d.OneIANA.nil
    /\ Len(reply.d.OneIANA.Addresses) = 2
    /\ reply.d.OneIANA.Addresses[1].IPv6Addr # reply.d.OneIANA.Addresses[2].IPv6Addr
    /\ reply.d.OneIANA.Addresses[1].ValidLifetime # reply.d.OneIANA.Addresses[2].ValidLifetime
    /\ reply.d.OneIANA.Addresses[1].PreferredLifetime
          # reply.d.OneIANA.Addresses[2].PreferredLifetime
    /\ Len(extracted.res.netconf.Addresses) = 2

\* The n = 0 case: an IA_NA option without bound addresses is a success
\* with no AddrConf.
C14_WitnessNoAddress ==
    /\ Extracted(6)
    /\ ~reply.d.OneIANA.nil /\ reply.d.OneIANA.Addresses = <<>>
    /\ ~extracted.res.nil /\ extracted.res.netconf.Addresses = <<>>

\* ------------------------------------------------------------------ C15
IfUpCalls == {c \in Calls : kind[c] = "IfUp"}

\* Call c evaluates the loop condition of IfUp in this step.
LoopStep(c) == pc[c] = "poll" /\ pc'[c] # "poll"
\* Call c has not slept yet: the step is its first pass through the loop.
FirstPass(c) == wake[c] = 0
\* The loop condition holds: the step looks the interface up (a poll).
Polls(c) == now - start[c] < args[c].timeout

\* C15 (as claimed): for every non-negative timeout, IfUp on a name that
\* cannot be resolved returns the lookup error on its first pass, without
\* sleeping; and a later poll that finds the interface gone returns the
\* lookup error on that poll.
C15_Original ==
    [][\A c \in IfUpCalls :
          (LoopStep(c) /\ link[c] = "absent" /\ (FirstPass(c) \/ Polls(c)))
             => /\ pc'[c] = "done"
                /\ ret'[c] = IfUpResult("nil", "LookupError")]_vars

\* What the code does: the lookup error is returned by every pass that polls,
\* and a pass that does not poll (the timeout is used up, which a timeout of
\* 0 is from the start) returns the Timeout error whatever the interface is.
C15_LookupErrorWhenPolled ==
    [][\A c \in IfUpCalls :
          /\ (LoopStep(c) /\ link[c] = "absent" /\ Polls(c))
                => /\ pc'[c] = "done"
                   /\ ret'[c] = IfUpResult("nil", "LookupError")
          /\ (LoopStep(c) /\ ~Polls(c))
                => /\ pc'[c] = "done"
                   /\ ret'[c] = IfUpResult("nil", "Timeout")]_vars

\* IfUp with timeout 0 on a name that cannot be resolved has returned.
C15_Witness ==
    \E c \in IfUpCalls :
        /\ args[c].timeout = 0 /\ link[c] = "absent" /\ wake[c] = 0
        /\ Returned(c) /\ ret[c].err = "Timeout"

\* ------------------------------------------------------------------ C16
\* C16 (as claimed): for every non-negative timeout, IfUp on an interface
\* that is up returns its handle and a nil error on the first pass, without
\* sleeping; IfUp returns a handle only on a poll that saw the up flag set,
\* and on the first such poll.
C16_Original ==
    [][\A c \in IfUpCalls :
          /\ (LoopStep(c) /\ link[c] = "up" /\ (FirstPass(c) \/ Polls(c)))
                => /\ pc'[c] = "done"
                   /\ ret'[c] = IfUpResult("iface", "nil")
          /\ (pc[c] # "done" /\ pc'[c] = "done" /\ ret'[c].iface # "nil")
                => LoopStep(c) /\ Polls(c) /\ link[c] = "up"]_vars

\* What the code does: a handle is returned by exactly the polls that see the
\* up flag set.
C16_HandleWhenPolledUp ==
    [][\A c \in IfUpCalls :
          /\ (LoopStep(c) /\ link[c] = "up" /\ Polls(c))
                => /\ pc'[c] = "done"
                   /\ ret'[c] = IfUpResult("iface", "nil")
          /\ (pc[c] # "done" /\ pc'[c] = "done" /\ ret'[c].iface # "nil")
                => LoopStep(c) /\ Polls(c) /\ link[c] = "up"]_vars

\* IfUp with timeout 0 on an interface that is up has returned.
C16_Witness ==
    \E c \in IfUpCalls :
        /\ args[c].timeout = 0 /\ link[c] = "up" /\ wake[c] = 0
        /\ Returned(c) /\ ret[c] = IfUpResult("nil", "Timeout")

\* ------------------------------------------------------------------ C17
\* A pass of call c through the loop that finds the interface present and
\* not up: it sleeps 100ms while the timeout has not elapsed, and returns a
\* nil handle and the Timeout error once it has.
C17_Step ==
    \A c \in IfUpCalls :
        /\ (LoopStep(c) /\ link[c] = "down") =>
              IF Polls(c)
              THEN /\ pc'[c] = "sleep"
                   /\ wake'[c] = now + PollInterval
                   /\ ret'[c] = Pending
              ELSE /\ pc'[c] = "done"
                   /\ ret'[c] = IfUpResult("nil", "Timeout")
        /\ (pc[c] = "sleep" /\ pc'[c] # "sleep") =>
              pc'[c] = "poll" /\ now >= wake[c]
        /\ (pc[c] # "done" /\ pc'[c] = "done" /\ ret'[c].err = "Timeout") =>
              /\ ret'[c].iface = "nil"
              /\ now - start[c] >= args[c].timeout

\* The polls of call c are 100ms apart and lie within the timeout.
C17_State ==
    \A c \in IfUpCalls :
        /\ pc[c] = "sleep" =>
              /\ wake[c] - start[c] <= args[c].timeout + PollInterval
              /\ wake[c] >= start[c] + PollInterval
        /\ (Returned(c) /\ ret[c].err = "Timeout") => ret[c].iface = "nil"

\* C17: when the interface resolves on every poll and its up flag is never
\* set, IfUp polls every 100ms and, once the timeout has elapsed, returns a
\* nil handle and the Timeout error; it never returns a handle then, and it
\* always returns.
C17_IfUpTerminates ==
    /\ [][C17_Step]_vars
    /\ []C17_State
    /\ <>(\A c \in IfUpCalls : Returned(c))

C17_Witness ==
    \E c \in IfUpCalls :
        /\ args[c].timeout = MaxWait /\ link[c] = "down"
        /\ wake[c] = start[c] + MaxWait
        /\ now - start[c] >= args[c].timeout
        /\ Returned(c) /\ ret[c] = IfUpResult("nil", "Timeout")

\* ------------------------------------------------------------------ C18
\* Reply i of conversation conv answers the message sent right before it.
AnswersPrevious(conv, i) ==
    /\ conv[i].op = OpcodeBootReply
    /\ conv[i].xid = conv[i - 1].xid
    /\ conv[i - 1].op = OpcodeBootRequest

\* C18: in every conversation Exchange returns, the Offer has opcode
\* BootReply and the transaction identifier of the Discover, and the Ack has
\* opcode BootReply and the transaction identifier of the Request; when no
\* modifier sets the identifier, all messages of the conversation carry the
\* identifier drawn for the Discover.
C18_RepliesMatchRequests ==
    \A c \in ExchangeCalls : Returned(c) =>
        LET conv == ret[c].conv IN
        /\ Len(conv) >= 2 =>
              AnswersPrevious(conv, 2) /\ conv[2].mtype = MessageTypeOffer
        /\ Len(conv) >= 4 =>
              AnswersPrevious(conv, 4) /\ conv[4].mtype = MessageTypeAck
        /\ args[c].modifiers = <<>> =>
              \A i \in 1..Len(conv) : conv[i].xid = conv[1].xid
        /\ args[c].modifiers # <<>> =>
              \A i \in 1..Len(conv) : conv[i].xid = MaxXid

C18_Witness ==
    \E c \in ExchangeCalls :
        /\ Returned(c) /\ args[c].modifiers = <<>>
        /\ Len(ret[c].conv) = 4
        /\ \A i \in 1..4 : ret[c].conv[i].xid = 1
        /\ ret[c].conv[2].op = OpcodeBootReply /\ ret[c].conv[4].op = OpcodeBootReply

\* ------------------------------------------------------------------ C19
\* The configured remote or local address of call c is not an IPv4 UDP
\* address.
InvalidAddr(c) ==
    getRemoteUDPAddr(client[c]).err \/ getLocalUDPAddr(client[c]).err

C19_State ==
    \A c \in ExchangeCalls :
        /\ Returned(c) => conn[c] \in {"none", "closed"}
        /\ InvalidAddr(c) =>
              /\ conn[c] = "none" /\ sent[c] = <<>>
              /\ conversation[c] = <<>> /\ packet[c] = NoMsg
              /\ Returned(c) =>
                    ret[c].err \in {"InvalidRemoteAddr", "InvalidLocalAddr"}
        /\ (Returned(c) /\ conn[c] = "none") =>
              ret[c].err \in {"InvalidRemoteAddr", "InvalidLocalAddr", "ListenError"}
        /\ (Returned(c) /\ ret[c].err \in {"BuildError", "WriteDeadlineError",
                                           "SendError", "ReadDeadlineError",
                                           "Timeout", "RecvError", "nil"})
              => conn[c] = "closed"
        /\ sent[c] # <<>> => conn[c] # "none"

\* The socket is opened by ListenUDP and closed by the return, nowhere else.
C19_Step ==
    \A c \in ExchangeCalls :
        conn'[c] # conn[c] =>
            \/ conn[c] = "none" /\ conn'[c] = "open" /\ pc[c] = "listen"
            \/ conn[c] = "open" /\ conn'[c] = "closed" /\ pc'[c] = "done"

\* C19: Exchange never leaves a socket open.  With a remote or local address
\* that is not an IPv4 UDP address it fails before a socket is opened and
\* before any message is built or sent; once the socket is open it is closed
\* by every return: a failure to build the Discover or the Request, a send
\* failure, a receive timeout or error, and success.
C19_SocketClosedOnReturn == []C19_State /\ [][C19_Step]_vars

C19_Witness ==
    \E c \in ExchangeCalls :
        /\ Returned(c) /\ conn[c] = "closed"
        /\ ret[c].err = "Timeout" /\ Len(ret[c].conv) = 3
        /\ Len(sent[c]) = 2

\* The address check fails and no socket was opened.
C19_WitnessInvalidAddr ==
    \E c \in ExchangeCalls :
        /\ Returned(c) /\ conn[c] = "none"
        /\ client[c].RemoteAddr = "udp4" /\ client[c].LocalAddr = "udp6"
        /\ ret[c].err = "InvalidLocalAddr"

====
